---------------------------- MODULE Spec2Model ----------------------------
(***************************************************************************)
(* SNSoap.run_query (src/SNSoap.py): a Python generator that binds a SOAP  *)
(* client for a table, resolves a list of sys_ids (getKeys, or the         *)
(* caller's collection) and pages through getRecords, page_size sys_ids at *)
(* a time.                                                                 *)
(*                                                                         *)
(* Strings are sequences of code points (natural numbers); None, where a   *)
(* string is expected, is the one-element sequence <<-1>>, which is no     *)
(* string.  An optional argument is the record [none |-> TRUE] or          *)
(* [none |-> FALSE, v |-> value].                                          *)
(***************************************************************************)
EXTENDS Integers, Sequences, FiniteSets, TLC

VARIABLES
    pc,            \* "idle" | "created" | "suspended" | "done" | "failed"
    table,         \* argument table
    query_parms,   \* argument query_parms (optional dict)
    sys_ids_arg,   \* argument sys_ids as the caller passed it (optional list)
    page_size_arg, \* argument page_size as the caller passed it, <<num, den>>
    page_size,     \* local page_size after line 64
    client,        \* local client: the WSDL url it is bound to, <<>> if unbound
    sys_ids,       \* local sys_ids after lines 68-83
    start,         \* local start
    calls,         \* every remote operation issued so far, in order
    yielded,       \* the pages handed to the caller so far, in order
    err,           \* the exception that ended the generator, "none" if none
    pulls,         \* number of next() calls that ran generator code
    stops,         \* number of next() calls on the finished generator
    self,          \* the SNSoap object: instance, session, transport
    other          \* the frame of the caller's second generator, None if
                   \* the caller holds one generator only

vars == <<pc, table, query_parms, sys_ids_arg, page_size_arg, page_size,
          client, sys_ids, start, calls, yielded, err, pulls, stops, self,
          other>>

-----------------------------------------------------------------------------
(* Bounds of the model *)

MaxIds == 4             \* longest caller-supplied sys_ids collection
MaxRespLen == 3         \* longest sys_id string of an enumerated getKeys response
BigCount == 260         \* size of the one large getKeys response
MaxStops == 1           \* next() calls explored on a finished generator

(* Program constants *)

MinPageSize == 1
MaxPageSize == 250
Comma == 44

-----------------------------------------------------------------------------
(* Values *)

None == [none |-> TRUE]
Some(v) == [none |-> FALSE, v |-> v]

NoneEntry == << -1 >>

Min(a, b) == IF a < b THEN a ELSE b

SeqsUpTo(S, n) == UNION {[1..k -> S] : k \in 0..n}

Range(s) == {s[i] : i \in 1..Len(s)}

\* 'sys_idIN'
SysIdIn == <<115, 121, 115, 95, 105, 100, 73, 78>>

Str_a == <<97>>
Str_b == <<98>>
Str_a_b == <<97, Comma, 98>>
Str_x_y == <<120, Comma, 121>>

Digits == 48..57


-----------------------------------------------------------------------------
(* Conversions, computed as Python computes them *)

\* int(page_size) on a number num/den: truncation toward zero (line 64)
IntCoerce(q) ==
    IF q[1] >= 0 THEN q[1] \div q[2] ELSE -((-q[1]) \div q[2])

\* the strings int() reads as a decimal literal (line 72); here: digits only
IsIntLiteral(s) == Len(s) > 0 /\ \A i \in 1..Len(s) : s[i] \in Digits

RECURSIVE ParseInt(_)
ParseInt(s) ==
    IF Len(s) = 0 THEN 0
    ELSE 10 * ParseInt(SubSeq(s, 1, Len(s) - 1)) + (s[Len(s)] - 48)

\* the decimal string of a natural number
RECURSIVE StrOfNat(_)
StrOfNat(n) ==
    IF n < 10 THEN <<48 + n>> ELSE StrOfNat(n \div 10) \o <<48 + (n % 10)>>

\* s.split(',') (line 75): the pieces of s between its commas, in order.
\* Computed by halves: the last piece of the left half and the first piece of
\* the right half are one piece of s.
RECURSIVE Split(_)
Split(s) ==
    IF Len(s) = 0 THEN << <<>> >>
    ELSE IF Len(s) = 1 THEN (IF s[1] = Comma THEN << <<>>, <<>> >> ELSE <<s>>)
    ELSE LET m == Len(s) \div 2
             l == Split(SubSeq(s, 1, m))
             r == Split(SubSeq(s, m + 1, Len(s)))
         IN  SubSeq(l, 1, Len(l) - 1) \o <<l[Len(l)] \o r[1]>> \o Tail(r)

\* ','.join(chunk) (line 89): the entries of chunk with a comma between each
\* two neighbours.  Computed by halves.
RECURSIVE Join(_)
Join(chunk) ==
    IF Len(chunk) = 0 THEN <<>>
    ELSE IF Len(chunk) = 1 THEN chunk[1]
    ELSE LET m == Len(chunk) \div 2
         IN  Join(SubSeq(chunk, 1, m)) \o <<Comma>>
                 \o Join(SubSeq(chunk, m + 1, Len(chunk)))

ValidPageSize_NoLowerBound(ps) == ps <= MaxPageSize

\* the condition of the assert (line 65)
ValidPageSize(ps) == MinPageSize <= ps /\ ps <= MaxPageSize

Chunk_DropsLast(ids, s, ps) == SubSeq(ids, s + 1, Min(s + ps, Len(ids)) - 1)

\* sys_ids[start: start + page_size] (line 88)
Chunk(ids, s, ps) == SubSeq(ids, s + 1, Min(s + ps, Len(ids)))

\* 'sys_id=' in place of 'sys_idIN'
Query_Equals(chunk) == <<115, 121, 115, 95, 105, 100, 61>> \o Join(chunk)

\* 'sys_idIN' + ','.join(chunk) (line 89)
Query(chunk) == SysIdIn \o Join(chunk)

\* start += page_size (line 91)
NextStart(s, ps) == s + ps

DistinctIds_KeepsNone(l) == Range(l)

\* set(sys_ids) without None (lines 78-82)
DistinctIds(l) == Range(l) \ {NoneEntry}

\* list(sys_ids) of a set (line 83): the set's elements, once each, in the
\* iteration order of the set, which the hash seed decides
Orders(S) == {o \in [1..Cardinality(S) -> S] : Range(o) = S}

\* the url of _client (lines 29-30)
WsdlUrl(instance, tablename) ==
    <<"https://", instance, ".service-now.com/", tablename, ".do?WSDL">>

\* what getRecords returns for a query: the remote's answer to that query
PageOf(query) == [records_of |-> query]

ParseKeys_IgnoresCount(response) ==
    IF ~IsIntLiteral(response.count)
    THEN [err |-> "ValueError", ids |-> <<>>]
    ELSE IF Len(response.sys_id) = 0
    THEN [err |-> "IndexError", ids |-> <<>>]
    ELSE [err |-> "none", ids |-> Split(response.sys_id[1])]

\* lines 72-75 on a getKeys response: the exception raised, or the sys_ids
ParseKeys(response) ==
    IF ~IsIntLiteral(response.count)
    THEN [err |-> "ValueError", ids |-> <<>>]
    ELSE IF ParseInt(response.count) = 0
    THEN [err |-> "none", ids |-> <<>>]
    ELSE IF Len(response.sys_id) = 0
    THEN [err |-> "IndexError", ids |-> <<>>]
    ELSE [err |-> "none", ids |-> Split(response.sys_id[1])]

-----------------------------------------------------------------------------
(* Inputs *)

Instance == "dev"
Tables == {"incident", "cmdb_ci"}

\* page_size arguments: -1, 0, 0.5, 1, 2, 250, 250.5, 251
PageSizeArgs ==
    {<<-1, 1>>, <<0, 1>>, <<1, 2>>, <<1, 1>>, <<2, 1>>,
     <<MaxPageSize, 1>>, <<2 * MaxPageSize + 1, 2>>, <<MaxPageSize + 1, 1>>}

\* query_parms arguments: a dict is a set of <<keyword, value>> pairs
Dicts == {{}, {<<"__encoded_query", "active=false^state=7">>}}
QueryParmsArgs == {None} \cup {Some(d) : d \in Dicts}

\* sys_ids arguments
IdPool == {Str_a, Str_b, Str_a_b, NoneEntry}
SysIdsArgs == {None} \cup {Some(l) : l \in SeqsUpTo(IdPool, MaxIds)}

\* getKeys responses
BigIds == [i \in 1..BigCount |-> <<1000 + i>>]
BigSysId == Join(BigIds)
RespChars == {120, 121, Comma}
CountStrings ==
    {StrOfNat(n) : n \in 0..MaxRespLen} \cup {<<48, 48>>, <<120>>}
SysIdFields ==
    {<<>>} \cup {<<s>> : s \in SeqsUpTo(RespChars, MaxRespLen)}
           \cup {<<s, Str_x_y>> : s \in SeqsUpTo(RespChars, 1)}
BigResponse == [count |-> StrOfNat(BigCount), sys_id |-> <<BigSysId>>]
KeysResponses ==
    [count : CountStrings, sys_id : SysIdFields] \cup {BigResponse}

\* the arguments and responses explored when the caller holds two generators
PageSizeArgsTwo == {<<0, 1>>, <<1, 1>>, <<2, 1>>}
QueryParmsArgsTwo == {None, Some({})}
SysIdsArgsTwo == {None, Some(<<Str_a, NoneEntry, Str_b>>), Some(<<NoneEntry>>)}
KeysResponsesTwo ==
    {[count |-> <<48>>, sys_id |-> <<>>],
     [count |-> <<50>>, sys_id |-> <<Str_x_y>>],
     [count |-> <<120>>, sys_id |-> <<Str_x_y>>]}

-----------------------------------------------------------------------------
(* The log of remote operations *)

BindCall(url, ok) == [op |-> "bind", url |-> url, ok |-> ok]
KeysCallFailed(kw) == [op |-> "getKeys", args |-> kw, ok |-> FALSE]
KeysCall(kw, response) ==
    [op |-> "getKeys", args |-> kw, ok |-> TRUE, response |-> response]
RecordsCall(chunk, ok) ==
    [op |-> "getRecords", chunk |-> chunk, query |-> Query(chunk), ok |-> ok]

IsOp(name) == LET test(c) == c.op = name IN SelectSeq(calls, test)
Binds == IsOp("bind")
KeysCalls == IsOp("getKeys")
RecordsCalls == IsOp("getRecords")

-----------------------------------------------------------------------------
(* The generator *)

Init ==
    /\ pc = "idle"
    /\ table = ""
    /\ query_parms = None
    /\ sys_ids_arg = None
    /\ page_size_arg = <<MaxPageSize, 1>>
    /\ page_size = 0
    /\ client = <<>>
    /\ sys_ids = <<>>
    /\ start = 0
    /\ calls = <<>>
    /\ yielded = <<>>
    /\ err = "none"
    /\ pulls = 0
    /\ stops = 0
    /\ self = [instance |-> Instance,
               session |-> [auth |-> <<"username", "password">>],
               transport |-> [session |-> "session"]]
    /\ other = None

\* Calling the generator function creates the generator object and runs none
\* of the body (line 34).
run_query(t, q, s, p) ==
    /\ pc = "idle"
    /\ pc' = "created"
    /\ table' = t
    /\ query_parms' = q
    /\ sys_ids_arg' = s
    /\ page_size_arg' = p
    /\ UNCHANGED <<page_size, client, sys_ids, start, calls, yielded, err,
                   pulls, stops, self, other>>

\* How a next() call leaves the generator: where it stands, the exception it
\* raised, the calls it issued, the page it yielded, and its locals.
Leave(newpc, e, cs, pages, cl, ids, s) ==
    /\ pc' = newpc
    /\ err' = e
    /\ calls' = calls \o cs
    /\ yielded' = yielded \o pages
    /\ client' = cl
    /\ sys_ids' = ids
    /\ start' = s

PagingLoop_Prefetch(cl, ids, s, ps, cs) ==
    IF s < Len(ids)
    THEN LET chunk == Chunk(ids, s, ps)
             ahead == IF s + ps < Len(ids)
                      THEN <<RecordsCall(Chunk(ids, s + ps, ps), TRUE)>>
                      ELSE <<>>
         IN  \/ Leave("suspended", "none",
                      cs \o <<RecordsCall(chunk, TRUE)>> \o ahead,
                      <<PageOf(Query(chunk))>>, cl, ids, s)
             \/ Leave("failed", "RemoteQueryError",
                      cs \o <<RecordsCall(chunk, FALSE)>>, <<>>, cl, ids, s)
    ELSE Leave("done", "none", cs, <<>>, cl, ids, s)

PagingLoop_Retry(cl, ids, s, ps, cs) ==
    IF s < Len(ids)
    THEN LET chunk == Chunk(ids, s, ps)
         IN  \/ Leave("suspended", "none", cs \o <<RecordsCall(chunk, TRUE)>>,
                      <<PageOf(Query(chunk))>>, cl, ids, s)
             \/ Leave("suspended", "none",
                      cs \o <<RecordsCall(chunk, FALSE), RecordsCall(chunk, TRUE)>>,
                      <<PageOf(Query(chunk))>>, cl, ids, s)
    ELSE Leave("done", "none", cs, <<>>, cl, ids, s)

\* The loop from its test with start = s (lines 87-90); cs are the calls
\* this next() has issued before reaching it.
PagingLoop(cl, ids, s, ps, cs) ==
    IF s < Len(ids)
    THEN LET chunk == Chunk(ids, s, ps)
         IN  \/ Leave("suspended", "none", cs \o <<RecordsCall(chunk, TRUE)>>,
                      <<PageOf(Query(chunk))>>, cl, ids, s)
             \/ Leave("failed", "RemoteQueryError",
                      cs \o <<RecordsCall(chunk, FALSE)>>, <<>>, cl, ids, s)
    ELSE Leave("done", "none", cs, <<>>, cl, ids, s)

\* the responses getKeys may return
Responses == IF other = None THEN KeysResponses ELSE KeysResponsesTwo

\* lines 68-75: getKeys(**query_parms) and the parsing of its response
ResolveByKeys(cl, ps, cs) ==
    IF query_parms = None
    THEN \* ** of None: TypeError before the call is made
         Leave("failed", "TypeError", cs, <<>>, cl, sys_ids, start)
    ELSE \/ Leave("failed", "RemoteQueryError",
                  cs \o <<KeysCallFailed(query_parms.v)>>, <<>>, cl,
                  sys_ids, start)
         \/ \E response \in Responses :
              LET parsed == ParseKeys(response)
                  cs2 == cs \o <<KeysCall(query_parms.v, response)>>
              IN  IF parsed.err # "none"
                  THEN Leave("failed", parsed.err, cs2, <<>>, cl, sys_ids, start)
                  ELSE PagingLoop(cl, parsed.ids, 0, ps, cs2)

\* lines 76-83: the caller's collection, without duplicates and None
ResolveSupplied(cl, ps, cs) ==
    \E order \in Orders(DistinctIds(sys_ids_arg.v)) :
        PagingLoop(cl, order, 0, ps, cs)

\* a client kept per table and reused by a later invocation
NextFirst_CachedClient ==
    /\ pc = "created"
    /\ pulls' = pulls + 1
    /\ page_size' = IntCoerce(page_size_arg)
    /\ UNCHANGED <<table, query_parms, sys_ids_arg, page_size_arg, stops, self,
                   other>>
    /\ LET ps == IntCoerce(page_size_arg)
           url == WsdlUrl(self.instance, table)
       IN  IF ~ValidPageSize(ps)
           THEN Leave("failed", "AssertionError", <<>>, <<>>, client, sys_ids,
                      start)
           ELSE \/ Leave("failed", "EndpointError", <<BindCall(url, FALSE)>>,
                         <<>>, client, sys_ids, start)
                \/ LET cached == other # None /\ other.client = url
                       cs == IF cached THEN <<>> ELSE <<BindCall(url, TRUE)>>
                   IN  IF sys_ids_arg = None
                       THEN ResolveByKeys(url, ps, cs)
                       ELSE ResolveSupplied(url, ps, cs)

\* The first next(): the body from line 64 to the first yield, to the end of
\* the function, or to an exception.
NextFirst ==
    /\ pc = "created"
    /\ pulls' = pulls + 1
    /\ page_size' = IntCoerce(page_size_arg)
    /\ UNCHANGED <<table, query_parms, sys_ids_arg, page_size_arg, stops, self,
                   other>>
    /\ LET ps == IntCoerce(page_size_arg)
           url == WsdlUrl(self.instance, table)
       IN  IF ~ValidPageSize(ps)
           THEN Leave("failed", "AssertionError", <<>>, <<>>, client, sys_ids,
                      start)
           ELSE \/ Leave("failed", "EndpointError", <<BindCall(url, FALSE)>>,
                         <<>>, client, sys_ids, start)
                \/ IF sys_ids_arg = None
                   THEN ResolveByKeys(url, ps, <<BindCall(url, TRUE)>>)
                   ELSE ResolveSupplied(url, ps, <<BindCall(url, TRUE)>>)

\* A later next(): resumes after the yield (line 91, then the loop).
NextResume ==
    /\ pc = "suspended"
    /\ pulls' = pulls + 1
    /\ UNCHANGED <<table, query_parms, sys_ids_arg, page_size_arg, page_size,
                   stops, self, other>>
    /\ PagingLoop(client, sys_ids, NextStart(start, page_size), page_size, <<>>)

\* next() on a generator that returned or raised: StopIteration, no code runs.
NextFinished ==
    /\ pc \in {"done", "failed"}
    /\ stops < MaxStops
    /\ stops' = stops + 1
    /\ UNCHANGED <<pc, table, query_parms, sys_ids_arg, page_size_arg,
                   page_size, client, sys_ids, start, calls, yielded, err,
                   pulls, self, other>>

\* A caller calls run_query, with any of the enumerated arguments.
Call ==
    /\ pc = "idle"
    /\ \E t \in Tables, q \in QueryParmsArgs, s \in SysIdsArgs,
          p \in PageSizeArgs : run_query(t, q, s, p)

Next ==
    \/ Call
    \/ NextFirst
    \/ NextResume
    \/ NextFinished

Spec == Init /\ [][Next]_vars

-----------------------------------------------------------------------------
(* Two generators of one SNSoap object, pulled in any interleaving *)

\* The frame of the generator the caller is working with: the arguments and
\* locals of its run_query invocation, and what it has done so far.
Frame ==
    [pc |-> pc, table |-> table, query_parms |-> query_parms,
     sys_ids_arg |-> sys_ids_arg, page_size_arg |-> page_size_arg,
     page_size |-> page_size, client |-> client, sys_ids |-> sys_ids,
     start |-> start, calls |-> calls, yielded |-> yielded, err |-> err,
     pulls |-> pulls, stops |-> stops]

\* the frame of a generator not yet created
IdleFrame ==
    [pc |-> "idle", table |-> "", query_parms |-> None,
     sys_ids_arg |-> None, page_size_arg |-> <<MaxPageSize, 1>>,
     page_size |-> 0, client |-> <<>>, sys_ids |-> <<>>, start |-> 0,
     calls |-> <<>>, yielded |-> <<>>, err |-> "none", pulls |-> 0,
     stops |-> 0]

InitTwo ==
    /\ pc = "idle"
    /\ table = ""
    /\ query_parms = None
    /\ sys_ids_arg = None
    /\ page_size_arg = <<MaxPageSize, 1>>
    /\ page_size = 0
    /\ client = <<>>
    /\ sys_ids = <<>>
    /\ start = 0
    /\ calls = <<>>
    /\ yielded = <<>>
    /\ err = "none"
    /\ pulls = 0
    /\ stops = 0
    /\ self = [instance |-> Instance,
               session |-> [auth |-> <<"username", "password">>],
               transport |-> [session |-> "session"]]
    /\ other = IdleFrame

\* locals kept on the object: start is not part of a generator's frame
Switch_SharesStart ==
    /\ other # None
    /\ other' = Frame
    /\ pc' = other.pc
    /\ table' = other.table
    /\ query_parms' = other.query_parms
    /\ sys_ids_arg' = other.sys_ids_arg
    /\ page_size_arg' = other.page_size_arg
    /\ page_size' = other.page_size
    /\ client' = other.client
    /\ sys_ids' = other.sys_ids
    /\ calls' = other.calls
    /\ yielded' = other.yielded
    /\ err' = other.err
    /\ pulls' = other.pulls
    /\ stops' = other.stops
    /\ UNCHANGED <<self, start>>

\* The caller turns from one generator to the other.  Each generator object
\* has its own frame: the arguments and locals of run_query live in it, none
\* on the SNSoap object.
Switch ==
    /\ other # None
    /\ other' = Frame
    /\ pc' = other.pc
    /\ table' = other.table
    /\ query_parms' = other.query_parms
    /\ sys_ids_arg' = other.sys_ids_arg
    /\ page_size_arg' = other.page_size_arg
    /\ page_size' = other.page_size
    /\ client' = other.client
    /\ sys_ids' = other.sys_ids
    /\ start' = other.start
    /\ calls' = other.calls
    /\ yielded' = other.yielded
    /\ err' = other.err
    /\ pulls' = other.pulls
    /\ stops' = other.stops
    /\ UNCHANGED self

\* A caller calls run_query on the object for one of its two generators.
CallTwo ==
    /\ pc = "idle"
    /\ \E t \in Tables, q \in QueryParmsArgsTwo, s \in SysIdsArgsTwo,
          p \in PageSizeArgsTwo : run_query(t, q, s, p)

NextTwo ==
    \/ CallTwo
    \/ NextFirst
    \/ NextResume
    \/ NextFinished
    \/ Switch

SpecTwo == InitTwo /\ [][NextTwo]_vars

-----------------------------------------------------------------------------
(* Properties *)

\* the generator has run code: some next() was called on it
Started == pulls > 0

\* ceil(n / p) for p > 0
CeilDiv(n, p) == (n + p - 1) \div p

NoDuplicates(l) == \A i, j \in 1..Len(l) : l[i] = l[j] => i = j

\* C1: whatever query_parms and sys_ids are, a page_size whose integer value
\* is below 1 or above 250 makes the generator fail at the assert (the
\* spec's InvalidArgumentError) with no client bound, no getKeys and no
\* getRecords call issued, and no page yielded.
C1_InvalidPageSizeFailsBeforeAnyCall ==
    (pc # "idle" /\ (IntCoerce(page_size_arg) < 1 \/ IntCoerce(page_size_arg) > 250))
        => /\ calls = <<>>
           /\ client = <<>>
           /\ yielded = <<>>
           /\ Started => (pc = "failed" /\ err = "AssertionError")

\* a page_size of 0.5, coerced to 0, has failed an invocation with supplied ids
C1_Witness ==
    /\ pc = "failed"
    /\ err = "AssertionError"
    /\ page_size_arg = <<1, 2>>
    /\ sys_ids_arg = Some(<<Str_a, Str_b>>)
    /\ query_parms # None

\* C2: a fully consumed run_query over n sys_ids with page size p has issued
\* exactly ceil(n / p) getRecords calls; the i-th chunk is the slice of the
\* list from (i - 1) * p to i * p, so every chunk but the last has p
\* entries, the last has 1 to p, and the chunks in order make up the list.
\* 260 sys_ids with page size 250 give two pages, of 250 and 10.
C2_ChunksPartitionTheList ==
    (pc = "done" /\ err = "none" /\ Started) =>
        LET n == Len(sys_ids)
            p == page_size
            R == RecordsCalls
        IN  /\ Len(R) = CeilDiv(n, p)
            /\ Len(yielded) = Len(R)
            /\ \A i \in 1..Len(R) :
                 /\ R[i].ok
                 /\ Len(R[i].chunk) >= 1
                 /\ Len(R[i].chunk) <= p
                 /\ i < Len(R) => Len(R[i].chunk) = p
                 /\ \A k \in 1..Len(R[i].chunk) :
                      R[i].chunk[k] = sys_ids[(i - 1) * p + k]
            /\ \A k \in 1..n :
                 sys_ids[k] = R[((k - 1) \div p) + 1].chunk[((k - 1) % p) + 1]
            /\ (n = 260 /\ p = 250) =>
                 (Len(R) = 2 /\ Len(R[1].chunk) = 250 /\ Len(R[2].chunk) = 10)

\* 260 sys_ids were fetched in two pages of 250 and 10
C2_Witness ==
    /\ pc = "done"
    /\ err = "none"
    /\ Len(sys_ids) = 260
    /\ NoDuplicates(sys_ids)
    /\ page_size = 250
    /\ Len(yielded) = 2
    /\ Len(RecordsCalls[1].chunk) = 250
    /\ Len(RecordsCalls[2].chunk) = 10

\* the last getRecords call raised
RecordsCallFailed ==
    /\ calls # <<>>
    /\ calls[Len(calls)].op = "getRecords"
    /\ ~calls[Len(calls)].ok

\* C3: creating the generator does no remote work, and at every moment the
\* number of getRecords calls issued is the number of pages handed to the
\* caller (plus the one call that raised, if one did), never more than the
\* number of next() calls made: no page is fetched ahead.  After one next()
\* on a list of several pages exactly one getRecords call has been issued.
C3_NoPrefetch ==
    /\ pc \in {"idle", "created"} =>
         (calls = <<>> /\ client = <<>> /\ yielded = <<>> /\ pulls = 0)
    /\ Len(RecordsCalls) <= pulls
    /\ Len(RecordsCalls) = Len(yielded) + (IF RecordsCallFailed THEN 1 ELSE 0)
    /\ (pulls = 1 /\ pc = "suspended") => Len(RecordsCalls) = 1

\* one page of a list of several pages was pulled: one getRecords call so far
C3_Witness ==
    /\ pulls = 1
    /\ pc = "suspended"
    /\ Len(sys_ids) > 2 * page_size
    /\ Len(yielded) = 1
    /\ Len(RecordsCalls) = 1

\* the strings of the enumerated responses whose int() is 0
ZeroCounts == {<<48>>, <<48, 48>>}

\* C4: with sys_ids omitted and a getKeys response whose count is 0, the
\* generator ends at once: no page, one service call (the getKeys), no
\* getRecords, whatever the response's sys_id field holds (it is not read:
\* an empty field raises nothing, a non-empty one yields no sys_id).
C4_ZeroCountYieldsNothing ==
    (/\ sys_ids_arg = None
     /\ KeysCalls # <<>>
     /\ KeysCalls[1].ok
     /\ KeysCalls[1].response.count \in ZeroCounts)
        => /\ pc = "done"
           /\ err = "none"
           /\ sys_ids = <<>>
           /\ yielded = <<>>
           /\ RecordsCalls = <<>>
           /\ Len(KeysCalls) = 1
           /\ Len(calls) = Len(Binds) + 1

\* count "0" with a sys_id field holding "x,y": done, nothing fetched
C4_Witness ==
    /\ pc = "done"
    /\ sys_ids_arg = None
    /\ Len(KeysCalls) = 1
    /\ KeysCalls[1].ok
    /\ KeysCalls[1].response = [count |-> <<48>>, sys_id |-> <<Str_x_y>>]
    /\ RecordsCalls = <<>>
    /\ yielded = <<>>

\* the client is bound: line 66 returned
Bound == Binds # <<>> /\ Binds[1].ok

\* C5: with sys_ids supplied, the list that is paged holds exactly the
\* distinct entries of the collection other than None, each once; no getKeys
\* call is issued and query_parms is not used (its being None raises nothing).
C5_SuppliedIdsDeduplicated ==
    (sys_ids_arg # None /\ Bound) =>
        LET given == {sys_ids_arg.v[i] : i \in 1..Len(sys_ids_arg.v)}
        IN  /\ Range(sys_ids) = {e \in given : e # NoneEntry}
            /\ NoDuplicates(sys_ids)
            /\ KeysCalls = <<>>
            /\ err \in {"none", "RemoteQueryError"}
            /\ err = "RemoteQueryError" => RecordsCallFailed

\* the collection a, b, None, a with query_parms omitted: a and b are paged
C5_Witness ==
    /\ sys_ids_arg = Some(<<Str_a, Str_b, NoneEntry, Str_a>>)
    /\ query_parms = None
    /\ pc = "done"
    /\ Range(sys_ids) = {Str_a, Str_b}
    /\ Len(sys_ids) = 2
    /\ Len(yielded) = 2

\* the getKeys call returned a response that lines 72-75 turned into sys_ids
Resolved ==
    /\ sys_ids_arg = None
    /\ KeysCalls # <<>>
    /\ KeysCalls[1].ok
    /\ err \notin {"ValueError", "IndexError"}

\* C6: while run_query is paging, the list being paged has no duplicate and
\* no None entry, and on the getKeys path has at most as many entries as
\* the count of the response.
C6_IdentifierListInvariant ==
    pc = "suspended" =>
        /\ NoDuplicates(sys_ids)
        /\ NoneEntry \notin Range(sys_ids)
        /\ Resolved => Len(sys_ids) <= ParseInt(KeysCalls[1].response.count)

\* C7: a remote call that raised is the last call of the invocation (it is
\* not retried and nothing is called after it, whatever next() calls follow);
\* the generator ended with that error at the next() that issued the call,
\* and the pages yielded are those of the chunks before the failing one.
C7_ErrorsSurfaceAndHalt ==
    \A i \in 1..Len(calls) :
        ~calls[i].ok =>
            LET R == RecordsCalls
                good == IF calls[i].op = "getRecords" THEN Len(R) - 1 ELSE 0
            IN  /\ i = Len(calls)
                /\ pc = "failed"
                /\ err = IF calls[i].op = "bind" THEN "EndpointError"
                                                 ELSE "RemoteQueryError"
                /\ Len(yielded) = good
                /\ pulls = good + 1
                /\ calls[i].op # "getRecords" => R = <<>>
                /\ \A j \in 1..good :
                     /\ R[j].ok
                     /\ yielded[j] = PageOf(R[j].query)
                     /\ \A k \in 1..Len(R[j].chunk) :
                          R[j].chunk[k] = sys_ids[(j - 1) * page_size + k]

\* the second getRecords raised after one page; a later next() called nothing
C7_Witness ==
    /\ pc = "failed"
    /\ err = "RemoteQueryError"
    /\ Len(RecordsCalls) = 2
    /\ RecordsCalls[1].ok
    /\ ~RecordsCalls[2].ok
    /\ Len(yielded) = 1
    /\ stops > 0

CommaFree(l) == \A i \in 1..Len(l) : \A k \in 1..Len(l[i]) : l[i][k] # Comma

\* C8: the query of every getRecords call is 'sys_idIN' followed by the
\* chunk's sys_ids with commas between them, the sys_ids unchanged (splitting
\* the text after 'sys_idIN' at commas gives back a chunk of comma-free
\* sys_ids; a single sys_id follows verbatim even if it holds a comma).  On
\* the getKeys path the sys_ids are the pieces of response['sys_id'][0]
\* between its commas, so a first page that holds them all asks for
\* 'sys_idIN' + response['sys_id'][0]; the response count "2", sys_id
\* ["x,y"] gives the one query sys_idINx,y.
C8_QueryExpression ==
    /\ \A i \in 1..Len(RecordsCalls) :
         LET r == RecordsCalls[i]
             text == SubSeq(r.query, 9, Len(r.query))
         IN  /\ Len(r.query) >= 8
             /\ SubSeq(r.query, 1, 8) = <<115, 121, 115, 95, 105, 100, 73, 78>>
             /\ CommaFree(r.chunk) => Split(text) = r.chunk
             /\ Len(r.chunk) = 1 => text = r.chunk[1]
    /\ (Resolved /\ KeysCalls[1].response.count \notin ZeroCounts) =>
         LET given == KeysCalls[1].response.sys_id[1]
         IN  /\ CommaFree(sys_ids)
             /\ Join(sys_ids) = given
             /\ Len(sys_ids) =
                  Cardinality({k \in 1..Len(given) : given[k] = Comma}) + 1
             /\ (RecordsCalls # <<>> /\ page_size >= Len(sys_ids)) =>
                  RecordsCalls[1].query = SysIdIn \o given
    /\ (/\ Resolved
        /\ KeysCalls[1].response = [count |-> <<50>>, sys_id |-> <<Str_x_y>>]
        /\ page_size >= 2
        /\ pc = "done") =>
         /\ Len(RecordsCalls) = 1
         /\ RecordsCalls[1].chunk = << <<120>>, <<121>> >>
         /\ RecordsCalls[1].query =
              <<115, 121, 115, 95, 105, 100, 73, 78, 120, 44, 121>>

\* count "2", sys_id ["x,y"], default page size: one query, sys_idINx,y
C8_Witness ==
    /\ pc = "done"
    /\ sys_ids_arg = None
    /\ page_size_arg = <<MaxPageSize, 1>>
    /\ Len(KeysCalls) = 1
    /\ KeysCalls[1].ok
    /\ KeysCalls[1].response = [count |-> <<50>>, sys_id |-> <<Str_x_y>>]
    /\ Len(RecordsCalls) = 1
    /\ RecordsCalls[1].query = SysIdIn \o Str_x_y

\* the failures the specification documents: a bad page_size, a remote call
\* that raised, a response that cannot be read
DocumentedFailure ==
    err \in {"AssertionError", "EndpointError", "RemoteQueryError",
             "ValueError", "IndexError"}

\* C9: an invocation goes from its start through the resolution of the
\* sys_ids (getKeys, exactly when sys_ids is omitted) and the paging to its
\* end: once started it is paging or done unless a remote call raised or
\* page_size was invalid, it yields at most ceil(n / page_size) pages, and
\* none when the list is empty.
C9_StateMachine ==
    /\ KeysCalls # <<>> => sys_ids_arg = None
    /\ (sys_ids_arg = None /\ pc \in {"suspended", "done"}) =>
         (Len(KeysCalls) = 1 /\ KeysCalls[1].ok)
    /\ pc \in {"suspended", "done"} =>
         /\ Len(yielded) <= CeilDiv(Len(sys_ids), page_size)
         /\ sys_ids = <<>> => (pc = "done" /\ yielded = <<>> /\ pulls = 1)
    /\ Started => (pc \in {"suspended", "done"} \/ DocumentedFailure)

\* C10: with sys_ids omitted, an invocation that got its client issues one
\* getKeys call, with the entries of query_parms (none when query_parms is
\* omitted too) as its arguments, before any getRecords call.
C10_OneKeysCallFirst ==
    (sys_ids_arg = None /\ Bound) =>
        /\ Len(KeysCalls) = 1
        /\ KeysCalls[1].args = (IF query_parms = None THEN {} ELSE query_parms.v)
        /\ \A i \in 1..Len(calls) :
             calls[i].op = "getRecords" =>
                 \E j \in 1..(i - 1) : calls[j].op = "getKeys" /\ calls[j].ok

-----------------------------------------------------------------------------
(* Properties of two generators of one object *)

\* the calls of operation name that the generator of frame f has issued
OpsOf(f, name) == LET test(c) == c.op = name IN SelectSeq(f.calls, test)

\* the SNSoap object as __init__ leaves it
Constructed ==
    [instance |-> "dev",
     session |-> [auth |-> <<"username", "password">>],
     transport |-> [session |-> "session"]]

\* What a generator consumed alone has done, in terms of its own arguments
\* and of the responses it received itself: its client is the one of its
\* table, the list it pages comes from its sys_ids or its getKeys response,
\* its getRecords calls are for the slices of that list in order, its pages
\* are the answers to those calls, and start stands at the last slice.
Solo(f) ==
    LET R == OpsOf(f, "getRecords")
        K == OpsOf(f, "getKeys")
        B == OpsOf(f, "bind")
        n == Len(f.sys_ids)
        p == f.page_size
        failed == IF R # <<>> /\ ~R[Len(R)].ok THEN 1 ELSE 0
    IN  /\ f.pulls = 0 =>
             /\ f.calls = <<>> /\ f.yielded = <<>> /\ f.client = <<>>
             /\ f.sys_ids = <<>> /\ f.start = 0 /\ f.err = "none"
        /\ f.pulls > 0 => p = IntCoerce(f.page_size_arg)
        /\ Len(B) <= 1
        /\ \A i \in 1..Len(B) :
             B[i].url = <<"https://", "dev", ".service-now.com/", f.table,
                          ".do?WSDL">>
        /\ f.client # <<>> => (B # <<>> /\ B[1].ok /\ f.client = B[1].url)
        /\ (f.sys_ids_arg # None /\ f.client # <<>>) =>
             /\ Range(f.sys_ids) =
                  {f.sys_ids_arg.v[i] : i \in 1..Len(f.sys_ids_arg.v)}
                      \ {NoneEntry}
             /\ NoDuplicates(f.sys_ids)
             /\ K = <<>>
        /\ (f.sys_ids_arg = None /\ K # <<>>) =>
             /\ Len(K) = 1
             /\ K[1].args = f.query_parms.v
             /\ (K[1].ok /\ f.err \notin {"ValueError", "IndexError"}) =>
                  IF K[1].response.count \in ZeroCounts
                  THEN f.sys_ids = <<>>
                  ELSE /\ CommaFree(f.sys_ids)
                       /\ Join(f.sys_ids) = K[1].response.sys_id[1]
        /\ \A i \in 1..Len(R) :
             /\ Len(R[i].chunk) = Min(p, n - (i - 1) * p)
             /\ \A k \in 1..Len(R[i].chunk) :
                  R[i].chunk[k] = f.sys_ids[(i - 1) * p + k]
             /\ R[i].query = SysIdIn \o Join(R[i].chunk)
             /\ i < Len(R) => R[i].ok
        /\ Len(f.yielded) = Len(R) - failed
        /\ \A j \in 1..Len(f.yielded) : f.yielded[j] = [records_of |-> R[j].query]
        /\ f.pc = "suspended" =>
             (Len(R) >= 1 /\ f.start = (Len(R) - 1) * p /\ f.pulls = Len(R))
        /\ f.pc = "done" =>
             (Len(R) = CeilDiv(n, p) /\ f.pulls = Len(R) + 1)

\* A step leaves the object as it is; a next() or a call on one generator
\* leaves the other generator's frame and its own arguments as they are, and
\* turning to the other generator finds both frames as they were left.
StepKeepsTheRest ==
    /\ self' = self
    /\ \/ /\ other' = other
          /\ pc # "idle" =>
               /\ table' = table
               /\ query_parms' = query_parms
               /\ sys_ids_arg' = sys_ids_arg
               /\ page_size_arg' = page_size_arg
       \/ /\ other' = Frame
          /\ Frame' = other

\* C11: the object stays as __init__ left it, and with two generators of one
\* object pulled in any interleaving each generator's pages and remote calls
\* are those it produces alone from its own arguments and responses: no step
\* on one changes the other, and the caller's sys_ids collection (like every
\* argument) is never changed.
C11_InvocationsIndependent ==
    /\ [](self = Constructed /\ Solo(Frame) /\ (other # None => Solo(other)))
    /\ [][StepKeepsTheRest]_vars

\* both generators are in the middle of their pages, on different tables and
\* with different progress, one paging its caller's sys_ids
C11_Witness ==
    /\ other # None
    /\ pc = "suspended"
    /\ other.pc = "suspended"
    /\ table # other.table
    /\ pulls = 2
    /\ other.pulls = 1
    /\ start # other.start
    /\ sys_ids_arg = Some(<<Str_a, NoneEntry, Str_b>>)
    /\ other.sys_ids_arg = None

\* the order of the steps of one invocation, and its one binding
Ordered(f) ==
    LET ps == IntCoerce(f.page_size_arg)
        B == OpsOf(f, "bind")
        rank(c) == IF c.op = "bind" THEN 1 ELSE IF c.op = "getKeys" THEN 2 ELSE 3
    IN  /\ f.pulls = 0 => f.calls = <<>>
        /\ (ps < 1 \/ ps > 250) => f.calls = <<>>
        /\ (f.pulls > 0 /\ ps >= 1 /\ ps <= 250) =>
             /\ Len(B) = 1
             /\ f.calls[1].op = "bind"
             /\ B[1].url[4] = f.table
        /\ \A i, j \in 1..Len(f.calls) :
             i < j => /\ rank(f.calls[i]) <= rank(f.calls[j])
                      /\ f.calls[j].op # "bind"
                      /\ f.calls[j].op = "getKeys" => f.calls[i].op = "bind"
        /\ (f.sys_ids_arg = None /\ OpsOf(f, "getRecords") # <<>>) =>
             OpsOf(f, "getKeys") # <<>>

\* C12: in every invocation page_size is validated before the client is
\* bound, the client is bound before getKeys, and getKeys comes before the
\* getRecords calls; each invocation that passes the validation binds its
\* client exactly once, at its first next(), whatever an earlier or
\* concurrent invocation of the same object has bound, also when its list of
\* sys_ids is empty and it yields no page.
C12_BoundOncePerInvocation ==
    /\ Ordered(Frame)
    /\ other # None => Ordered(other)

\* two invocations on the same table, both done, each with its own binding;
\* one of them had an empty list and yielded nothing
C12_Witness ==
    /\ other # None
    /\ table = other.table
    /\ pc = "done"
    /\ other.pc = "done"
    /\ Len(OpsOf(Frame, "bind")) = 1
    /\ Len(OpsOf(other, "bind")) = 1
    /\ sys_ids_arg = Some(<<NoneEntry>>)
    /\ yielded = <<>>
    /\ Len(other.yielded) = 2

=============================================================================
